---- MODULE Spec2Model ----
(***************************************************************************)
(* The AMUSE tutorial notebooks as a state machine.                        *)
(*                                                                         *)
(* Four linear scripts are modelled, one per notebook:                     *)
(*   "units"    the escape speed from the Solar surface, with units,       *)
(*   "stellar"  two SeBa solvers evolving a Kroupa and a Salpeter sample,  *)
(*   "nbody"    a King model handed to ph4, evolved and analysed,          *)
(*   "sph"      a MESA star pickled, converted to SPH, exploded in Fi.     *)
(* A run executes one notebook, statement by statement.  Every statement   *)
(* of a script is a record (op, code, colls, chan, arg, next, alt) and the *)
(* actions below interpret the ops.  The community codes themselves are    *)
(* external: their results are drawn from small sets, or computed by a     *)
(* small deterministic stand-in, and any evolve_model call may raise.      *)
(*                                                                         *)
(* Units: masses are integers (in the N-body notebook in units of          *)
(* MSun/NStars so that the equal King-model masses are exact); times are   *)
(* kyr for SeBa and MESA, 0.1 Myr for ph4, seconds for Fi.                 *)
(***************************************************************************)
EXTENDS Integers, Sequences, FiniteSets, TLC

\* ----------------------------------------------------------------- bounds
\* n_stars (1024 and 100 in the notebooks), scaled down
NStars == 2
\* masses of a sampled mass function are 1..MaxMass
MaxMass == 2
\* number of elements of times (40 and 1000 in the notebooks), scaled down
NTimes == 2
\* number_of_sph_particles (100 in the notebook), scaled down
NGas == 2

\* explosion_energy=1.0e+51|units.erg, in units of 1e51/840 erg so that the
\* quotient by every total mass of the model is exact
ExplosionEnergy == 840
\* exploding_region=1|units.RSun of the notebook's call
ExplodingRegion == 1

Notebooks == {"units", "stellar", "nbody", "sph"}
CodeNames == {"kstellar", "sstellar", "gravity", "mesa", "hydro"}
CollNames == {"k_stars", "s_stars", "bodies", "stars", "gas_without_core", "core"}
ChanNames == {"k_to_stars", "k_to_stellar", "s_to_stars", "s_to_stellar", "g_to_bodies"}

\* a mass function returns n_stars masses between mass_min and mass_max
MassSamples == [1..NStars -> 1..MaxMass]
\* abstract position cells of a generated King model
PosValues == {0, 1}
\* length factor scale_to_standard may apply
ScaleFactors == {1, 2}
\* displacement per unit of particle index of one ph4 evolve_model call
Drifts == {0, 1}
\* time steps (kyr) one MESA evolve_model() call may take
MesaSteps == {40, 70}
\* by how many seconds Fi may end beyond the requested time
HydroOvershoots == {0, 1800}
\* squared distance from the centre (RSun^2) and mass of a generated SPH particle
R2Values == {0, 1, 4}
GasMasses == {1, 2}

\* the solver behind each code variable
Kind(s) ==
    CASE s \in {"kstellar", "sstellar"} -> "SeBa"
      [] s = "gravity" -> "ph4"
      [] s = "mesa" -> "MESA"
      [] s = "hydro" -> "Fi"

\* the two ends of each channel: stellar.particles.new_channel_to(stars) etc.
Channel(ch) ==
    CASE ch = "k_to_stars" -> [from |-> "kstellar", to |-> "k_stars"]
      [] ch = "k_to_stellar" -> [from |-> "k_stars", to |-> "kstellar"]
      [] ch = "s_to_stars" -> [from |-> "sstellar", to |-> "s_stars"]
      [] ch = "s_to_stellar" -> [from |-> "s_stars", to |-> "sstellar"]
      [] ch = "g_to_bodies" -> [from |-> "gravity", to |-> "bodies"]

\* ------------------------------------------------------------ particle sets
P(k, a) == [key |-> k, attrs |-> a]

Keys(ps) == [j \in 1..Len(ps) |-> ps[j].key]

RECURSIVE SumSeq(_)
SumSeq(s) == IF s = <<>> THEN 0 ELSE Head(s) + SumSeq(Tail(s))

Masses(ps) == [j \in 1..Len(ps) |-> ps[j].attrs.mass]

\* Particles(mass=m), with keys first+1 .. first+len(m)
Particles(m, first) == [j \in 1..Len(m) |-> P(first + j, [mass |-> m[j]])]

\* times = 10**numpy.arange(0.0, 4.0, 0.1) | units.Myr, in kyr, rounded
PowersOfTen == <<1000, 1259, 1585, 1995, 2512, 3162, 3981, 5012>>

Times(n) ==
    CASE n = "stellar" -> [j \in 1..NTimes |-> PowersOfTen[j]]
      [] n = "nbody" -> [j \in 1..NTimes |-> j - 1]
      [] OTHER -> <<>>

\* ---------------------------------------------------------- the statements
S(op, c, colls, ch, arg, next, alt) ==
    [op |-> op, code |-> c, colls |-> colls, chan |-> ch, arg |-> arg,
     next |-> next, alt |-> alt]

\* --- notebook "AMUSE tutorial on units"
un_star == S("declare_star", "-", {}, "-", 0, "un_G", "-")
un_G == S("declare_G", "-", {}, "-", 0, "un_vesc", "-")
un_vesc == S("escape_speed", "-", {}, "-", 0, "un_unitsG", "-")
un_unitsG == S("declare_G", "-", {}, "-", 0, "un_vesc2", "-")
un_vesc2 == S("escape_speed", "-", {}, "-", 0, "un_print", "-")
un_print == S("print", "-", {}, "-", 0, "un_kms", "-")
un_kms == S("print", "-", {}, "-", 0, "un_import", "-")
un_import == S("import_G", "-", {}, "-", 0, "un_vesc3", "-")
un_vesc3 == S("escape_speed", "-", {}, "-", 0, "un_kms2", "-")
un_kms2 == S("print", "-", {}, "-", 0, "done", "-")

\* --- notebook "How to run a stellar evolution code"
st_imf == S("mean", "-", {"k_stars", "s_stars"}, "-", 0, "st_kstart", "-")
st_kstart == S("start_stellar_code", "kstellar", {"k_stars"}, "-", 0, "st_sstart", "-")
st_sstart == S("start_stellar_code", "sstellar", {"s_stars"}, "-", 0, "st_for", "-")
\* the loop whose body starts at the Salpeter solver's evolve
st_for_salpeter_first == S("for", "-", {}, "-", 0, "st_sevolve", "st_kstop")
st_for == S("for", "-", {}, "-", 0, "st_kevolve", "st_kstop")
\* the loop without the copy after kstellar's evolve
st_kevolve_without_copy == S("evolve_time", "kstellar", {}, "-", 0, "st_sevolve", "-")
st_kevolve == S("evolve_time", "kstellar", {}, "-", 0, "st_kcopy", "-")
\* the loop copying over the other channel, from k_stars into the solver
st_kcopy_to_stellar == S("copy", "-", {}, "k_to_stellar", 0, "st_sevolve", "-")
st_kcopy == S("copy", "-", {}, "k_to_stars", 0, "st_sevolve", "-")
\* the loop without the copy after sstellar's evolve
st_sevolve_without_copy == S("evolve_time", "sstellar", {}, "-", 0, "st_mmean", "-")
st_sevolve == S("evolve_time", "sstellar", {}, "-", 0, "st_scopy", "-")
st_scopy == S("copy", "-", {}, "s_to_stars", 0, "st_mmean", "-")
st_mmean == S("mmean", "-", {"k_stars", "s_stars"}, "-", 0, "st_for", "-")
st_kstop == S("stop", "kstellar", {}, "-", 0, "st_sstop", "-")
st_sstop == S("stop", "sstellar", {}, "-", 0, "st_means", "-")
\* the closing print taking its mean from the solver: numpy.mean(kstellar.particles.mass)
st_means_from_solver == S("probe", "kstellar", {}, "-", 0, "st_plot", "-")
st_means == S("mean", "-", {"k_stars", "s_stars"}, "-", 0, "st_plot", "-")
st_plot == S("plot", "-", {}, "-", 0, "done", "-")

\* --- notebook "How to run a simple N-body code"
nb_cdf == S("plot", "-", {}, "-", 0, "nb_king", "-")
nb_king == S("new_king_model", "-", {"bodies"}, "-", 0, "nb_scale", "-")
nb_scale == S("scale_to_standard", "-", {"bodies"}, "-", 0, "nb_snapshot", "-")
nb_snapshot == S("plot_snapshot", "-", {"bodies"}, "-", 0, "nb_ph4", "-")
nb_ph4 == S("new_code", "gravity", {}, "-", 0, "nb_add", "-")
nb_add == S("add_particles", "gravity", {"bodies"}, "-", 0, "nb_channel", "-")
nb_channel == S("new_channel_to", "gravity", {"bodies"}, "g_to_bodies", 0, "nb_for", "-")
nb_for == S("for", "-", {}, "-", 0, "nb_evolve", "nb_plot")
nb_evolve == S("evolve_time", "gravity", {}, "-", 0, "nb_copy", "-")
nb_copy == S("copy", "-", {}, "g_to_bodies", 0, "nb_rvir", "-")
nb_rvir == S("virial_radius", "-", {"bodies"}, "-", 0, "nb_lagr", "-")
nb_lagr == S("LagrangianRadii", "-", {"bodies"}, "-", 0, "nb_cluster", "-")
nb_cluster == S("print_cluster", "-", {"bodies"}, "-", 100, "nb_binaries", "-")
\* the loop left after the binary check
nb_binaries_break == S("get_binaries", "-", {"bodies"}, "-", 0, "nb_plot", "-")
nb_binaries == S("get_binaries", "-", {"bodies"}, "-", 0, "nb_for", "-")
nb_plot == S("plot", "-", {}, "-", 0, "done", "-")

\* --- notebook "Supernova explosion": setup_stellar_evolution_model
sp_mesa == S("new_code", "mesa", {}, "-", 0, "sp_stars", "-")
sp_stars == S("Particles", "-", {"stars"}, "-", 15, "sp_add", "-")
sp_add == S("add_particles", "mesa", {"stars"}, "-", 0, "sp_evolving", "-")
sp_evolving == S("probe", "mesa", {}, "-", 0, "sp_while", "-")
\* the loop with the limit 0.012 Myr
sp_while_to_12_kyr == S("while", "mesa", {}, "-", 12, "sp_evolve", "sp_pickle")
sp_while == S("while", "mesa", {}, "-", 120, "sp_evolve", "sp_pickle")
sp_evolve == S("evolve_step", "mesa", {}, "-", 0, "sp_star", "-")
sp_star == S("probe", "mesa", {}, "-", 0, "sp_while", "-")
sp_except == S("probe", "mesa", {}, "-", 0, "sp_pickle", "-")
sp_pickle == S("pickle_stellar_model", "mesa", {}, "-", 0, "sp_mstop", "-")
sp_mstop == S("stop", "mesa", {}, "-", 0, "sp_return", "-")
sp_return == S("return", "-", {}, "-", 0, "sp_convert", "-")
\* --- the rest of the notebook
sp_convert == S("convert_stellar_model_to_SPH", "-", {"gas_without_core", "core"}, "-", 0, "sp_plotstar", "-")
\* the notebook without the cell that injects the energy
sp_plotstar_then_fi == S("plot", "-", {}, "-", 0, "sp_fi", "-")
sp_plotstar == S("plot", "-", {}, "-", 0, "sp_inject", "-")
sp_inject == S("inject_supernova_energy", "-", {"gas_without_core"}, "-", ExplodingRegion, "sp_fi", "-")
sp_fi == S("new_code", "hydro", {}, "-", 0, "sp_addgas", "-")
sp_addgas == S("add_particles", "hydro", {"gas_without_core"}, "-", 0, "sp_addcore", "-")
sp_addcore == S("add_particle", "hydro", {"core"}, "-", 0, "sp_ev10", "-")
sp_ev10 == S("evolve", "hydro", {}, "-", 10, "sp_plot10", "-")
sp_plot10 == S("probe", "hydro", {}, "-", 0, "sp_ev60", "-")
sp_ev60 == S("evolve", "hydro", {}, "-", 60, "sp_plot60", "-")
sp_plot60 == S("probe", "hydro", {}, "-", 0, "sp_core1", "-")
sp_core1 == S("probe", "hydro", {}, "-", 0, "sp_ev3600", "-")
sp_ev3600 == S("evolve", "hydro", {}, "-", 3600, "sp_plot3600", "-")
sp_plot3600 == S("probe", "hydro", {}, "-", 0, "sp_hwhile", "-")
sp_hwhile == S("while", "hydro", {}, "-", 25920, "sp_hevolve", "sp_core2")
sp_hevolve == S("evolve_rel", "hydro", {}, "-", 3600, "sp_hplot", "-")
sp_hplot == S("probe", "hydro", {}, "-", 0, "sp_hwhile", "-")
sp_core2 == S("probe", "hydro", {}, "-", 0, "sp_hstop", "-")
sp_hstop == S("stop", "hydro", {}, "-", 0, "done", "-")

Halt == S("halt", "-", {}, "-", 0, "-", "-")

\* the statement at a label
Stmt(l) ==
    CASE l = "un_star" -> un_star [] l = "un_G" -> un_G
      [] l = "un_vesc" -> un_vesc [] l = "un_unitsG" -> un_unitsG
      [] l = "un_vesc2" -> un_vesc2 [] l = "un_print" -> un_print
      [] l = "un_kms" -> un_kms [] l = "un_import" -> un_import
      [] l = "un_vesc3" -> un_vesc3 [] l = "un_kms2" -> un_kms2
      [] l = "st_imf" -> st_imf [] l = "st_kstart" -> st_kstart
      [] l = "st_sstart" -> st_sstart [] l = "st_for" -> st_for
      [] l = "st_kevolve" -> st_kevolve [] l = "st_kcopy" -> st_kcopy
      [] l = "st_sevolve" -> st_sevolve [] l = "st_scopy" -> st_scopy
      [] l = "st_mmean" -> st_mmean [] l = "st_kstop" -> st_kstop
      [] l = "st_sstop" -> st_sstop [] l = "st_means" -> st_means
      [] l = "st_plot" -> st_plot
      [] l = "nb_cdf" -> nb_cdf [] l = "nb_king" -> nb_king
      [] l = "nb_scale" -> nb_scale [] l = "nb_snapshot" -> nb_snapshot
      [] l = "nb_ph4" -> nb_ph4 [] l = "nb_add" -> nb_add
      [] l = "nb_channel" -> nb_channel [] l = "nb_for" -> nb_for
      [] l = "nb_evolve" -> nb_evolve [] l = "nb_copy" -> nb_copy
      [] l = "nb_rvir" -> nb_rvir [] l = "nb_lagr" -> nb_lagr
      [] l = "nb_cluster" -> nb_cluster [] l = "nb_binaries" -> nb_binaries
      [] l = "nb_plot" -> nb_plot
      [] l = "sp_mesa" -> sp_mesa [] l = "sp_stars" -> sp_stars
      [] l = "sp_add" -> sp_add [] l = "sp_evolving" -> sp_evolving
      [] l = "sp_while" -> sp_while [] l = "sp_evolve" -> sp_evolve
      [] l = "sp_star" -> sp_star [] l = "sp_except" -> sp_except
      [] l = "sp_pickle" -> sp_pickle [] l = "sp_mstop" -> sp_mstop
      [] l = "sp_return" -> sp_return [] l = "sp_convert" -> sp_convert
      [] l = "sp_plotstar" -> sp_plotstar [] l = "sp_inject" -> sp_inject
      [] l = "sp_fi" -> sp_fi [] l = "sp_addgas" -> sp_addgas
      [] l = "sp_addcore" -> sp_addcore [] l = "sp_ev10" -> sp_ev10
      [] l = "sp_plot10" -> sp_plot10 [] l = "sp_ev60" -> sp_ev60
      [] l = "sp_plot60" -> sp_plot60 [] l = "sp_core1" -> sp_core1
      [] l = "sp_ev3600" -> sp_ev3600 [] l = "sp_plot3600" -> sp_plot3600
      [] l = "sp_hwhile" -> sp_hwhile [] l = "sp_hevolve" -> sp_hevolve
      [] l = "sp_hplot" -> sp_hplot [] l = "sp_core2" -> sp_core2
      [] l = "sp_hstop" -> sp_hstop
      [] OTHER -> Halt

\* the first statement of each notebook
Entry(n) ==
    CASE n = "units" -> "un_star" [] n = "stellar" -> "st_imf"
      [] n = "nbody" -> "nb_cdf" [] n = "sph" -> "sp_mesa"

\* "except AmuseException as ex": the name AmuseException is bound only if some
\* import of the notebook binds it; none does
AmuseExceptionBound == FALSE

\* every failing statement wrapped in a handler that goes on with the next one
Except_swallowed(l) == Stmt(l).next

\* a handler that runs the failing statement again
Except_retry(l) == l

\* where control goes when the statement at label l raises the framework's
\* exception: the try of setup_stellar_evolution_model covers the MESA loop, and
\* matching its except clause evaluates the name AmuseException (a NameError when
\* unbound, which nothing catches); no other statement is inside a try
Except(l) ==
    IF l \in {"sp_while", "sp_evolve", "sp_star"} /\ AmuseExceptionBound
    THEN "sp_except"
    ELSE "crashed"
\* ------------------------------------------------- the framework's operations
NoCode == [status |-> "none", particles |-> <<>>, dm |-> <<>>, model_time |-> 0]

\* a solver that files an added particle under the next key
SolverParticle_shifted_key(kind, p) ==
    IF kind \in {"SeBa", "MESA"}
    THEN P(p.key + 1, [mass |-> p.attrs.mass, age |-> 0])
    ELSE P(p.key + 1, p.attrs)

\* a solver keeps its own copy of the attributes it knows of an added particle;
\* the stellar evolution codes add the attributes they compute (here: age)
SolverParticle(kind, p) ==
    IF kind \in {"SeBa", "MESA"}
    THEN P(p.key, [mass |-> p.attrs.mass, age |-> 0])
    ELSE p

\* code.particles.add_particles(ps)
add_particles(c, kind, ps) ==
    [c EXCEPT !.particles = c.particles \o [j \in 1..Len(ps) |-> SolverParticle(kind, ps[j])]]

\* code.dm_particles.add_particle(core)
add_particle(c, kind, ps) ==
    [c EXCEPT !.dm = c.dm \o [j \in 1..Len(ps) |-> SolverParticle(kind, ps[j])]]

\* stand-in for SeBa: a star whose lifetime (shorter for a larger mass) is over
\* at time t (kyr) is left with a remnant of mass 1
SeBaMass(m, t) == IF m * t >= 2500 THEN 1 ELSE m

\* the particles of a solver of this kind after a successful evolve_model to
\* time t; d is the drift ph4 has drawn
EvolvedParticles(kind, ps, t, d) ==
    [j \in 1..Len(ps) |->
        CASE kind = "SeBa" ->
               P(ps[j].key, [mass |-> SeBaMass(ps[j].attrs.mass, t), age |-> t])
          [] kind = "MESA" ->
               P(ps[j].key, [mass |-> ps[j].attrs.mass, age |-> t])
          [] kind = "ph4" ->
               P(ps[j].key, [mass |-> ps[j].attrs.mass, x |-> ps[j].attrs.x + d * j])
          [] kind = "Fi" ->
               P(ps[j].key, [mass |-> ps[j].attrs.mass, r2 |-> ps[j].attrs.r2 + 1,
                             u |-> ps[j].attrs.u])]

\* what one evolve_model call may draw, by kind of solver
Draws(kind) ==
    CASE kind = "ph4" -> Drifts
      [] kind = "MESA" -> MesaSteps
      [] kind = "Fi" -> HydroOvershoots
      [] OTHER -> {0}

\* the time an evolve statement asks for: a literal, the loop variable time,
\* model_time plus a literal, or (evolve_model() without argument) one step on
TargetTime(st, c, n, k, d) ==
    CASE st.op = "evolve" -> st.arg
      [] st.op = "evolve_time" -> Times(n)[k]
      [] st.op = "evolve_rel" -> c.model_time + st.arg
      [] st.op = "evolve_step" -> c.model_time + d

\* the solver after a successful evolve_model
evolve_model(c, kind, t, d) ==
    [c EXCEPT !.particles = EvolvedParticles(kind, c.particles, t, d),
              !.model_time = IF kind = "Fi" THEN t + d ELSE t]

\* a copy that transfers the mass alone
ChannelCopy_mass_only(src, dst) ==
    [j \in 1..Len(dst) |->
        IF \E q \in 1..Len(src) : src[q].key = dst[j].key
        THEN LET sp == src[CHOOSE q \in 1..Len(src) : src[q].key = dst[j].key]
             IN  P(dst[j].key, [dst[j].attrs EXCEPT !.mass = sp.attrs.mass])
        ELSE dst[j]]

\* channel.copy(): every attribute of the source particle with the same key is
\* written to the target particle; attributes only the target has are kept
ChannelCopy(src, dst) ==
    [j \in 1..Len(dst) |->
        IF \E q \in 1..Len(src) : src[q].key = dst[j].key
        THEN LET sp == src[CHOOSE q \in 1..Len(src) : src[q].key = dst[j].key]
             IN  P(dst[j].key,
                   [a \in (DOMAIN dst[j].attrs) \cup (DOMAIN sp.attrs) |->
                       IF a \in DOMAIN sp.attrs THEN sp.attrs[a] ELSE dst[j].attrs[a]])
        ELSE dst[j]]

\* a solver that writes its particles through to the collection it is linked to
LocalAfterEvolve_write_through(cl, s, ps) ==
    [c \in DOMAIN cl |->
        IF \E ch \in ChanNames : Channel(ch).from = s /\ Channel(ch).to = c
        THEN ps
        ELSE cl[c]]

\* advancing a solver s whose particles become ps leaves every local collection
\* as it is ("This does not automatically update bodies!")
LocalAfterEvolve(cl, s, ps) == cl

\* new_king_model(n_stars, W0, convert_nbody=converter): n equal masses that add
\* up to the converter's mass (total, here in units of MSun/NStars), at the
\* positions xs
new_king_model(n, xs, total) ==
    [j \in 1..n |-> P(j, [mass |-> (NStars * total) \div n, x |-> xs[j]])]

\* bodies.scale_to_standard(converter): the masses are scaled to a total of one
\* N-body mass (the converter's mass) and the lengths by a common factor f
scale_to_standard(ps, total, f) ==
    LET tm == SumSeq(Masses(ps))
    IN  [j \in 1..Len(ps) |->
            P(ps[j].key, [mass |-> (ps[j].attrs.mass * NStars * total) \div tm,
                          x |-> f * ps[j].attrs.x])]

\* bodies.virial_radius(), LagrangianRadii(bodies)[5], bodies.get_binaries():
\* stand-ins computed from the positions of the collection
virial_radius(ps) == SumSeq([j \in 1..Len(ps) |-> ps[j].attrs.x])

LagrangianRadii(ps) ==
    CHOOSE r \in {ps[j].attrs.x : j \in 1..Len(ps)} :
        \A j \in 1..Len(ps) : ps[j].attrs.x <= r

get_binaries(ps) ==
    {pr \in (1..Len(ps)) \X (1..Len(ps)) :
        pr[1] < pr[2] /\ ps[pr[1]].attrs.x = ps[pr[2]].attrs.x}

\* convert_stellar_model_to_SPH(None, number_of_sph_particles, pickle_file=...):
\* gas particles of the given masses at the given squared radii, their specific
\* internal energy taken from the pickled model, and one core particle
convert_stellar_model_to_SPH(model, gm, r2) ==
    [gas_particles |->
        [j \in 1..NGas |-> P(100 + j, [mass |-> gm[j], r2 |-> r2[j], u |-> model.attrs.mass])],
     core_particle |-> <<P(100, [mass |-> 2, r2 |-> 0])>>]

\* a selection that includes the particles on the edge of the region
inject_supernova_energy_inclusive(gas, energy, region) ==
    LET inner == {j \in 1..Len(gas) : gas[j].attrs.r2 <= region * region}
        total_mass_inner == SumSeq([j \in 1..Len(gas) |->
                                       IF j \in inner THEN gas[j].attrs.mass ELSE 0])
    IN  [j \in 1..Len(gas) |->
            IF j \in inner
            THEN P(gas[j].key, [gas[j].attrs EXCEPT !.u = @ + energy \div total_mass_inner])
            ELSE gas[j]]

\* the energy shared out per selected particle instead of per unit of mass
inject_supernova_energy_per_particle(gas, energy, region) ==
    LET inner == {j \in 1..Len(gas) : gas[j].attrs.r2 < region * region}
    IN  [j \in 1..Len(gas) |->
            IF j \in inner
            THEN P(gas[j].key, [gas[j].attrs EXCEPT !.u = @ + energy \div Cardinality(inner)])
            ELSE gas[j]]

\* inject_supernova_energy(gas_particles, explosion_energy, exploding_region):
\* inner = the particles with length_squared < exploding_region**2, and
\* inner.u += explosion_energy / inner.total_mass()
inject_supernova_energy(gas, energy, region) ==
    LET inner == {j \in 1..Len(gas) : gas[j].attrs.r2 < region * region}
        total_mass_inner == SumSeq([j \in 1..Len(gas) |->
                                 IF j \in inner THEN gas[j].attrs.mass ELSE 0])
    IN  [j \in 1..Len(gas) |->
            IF j \in inner
            THEN P(gas[j].key, [gas[j].attrs EXCEPT !.u = @ + energy \div total_mass_inner])
            ELSE gas[j]]

\* ------------------------------------------------------ units and quantities
\* the dimension of a quantity: the exponents of mass, length and time, kept
\* doubled so that the square root of a unit has whole entries
D(m, l, t) == [M |-> 2 * m, L |-> 2 * l, T |-> 2 * t]

DMul(a, b) == [M |-> a.M + b.M, L |-> a.L + b.L, T |-> a.T + b.T]
DDiv(a, b) == [M |-> a.M - b.M, L |-> a.L - b.L, T |-> a.T - b.T]
DPow(a, n) == [M |-> n * a.M, L |-> n * a.L, T |-> n * a.T]
DSqrt(a) == [M |-> a.M \div 2, L |-> a.L \div 2, T |-> a.T \div 2]

\* the units the notebooks name (units.MSun, units.RSun, ...), by dimension
none == D(0, 0, 0)
MSun == D(1, 0, 0)
RSun == D(0, 1, 0)
Myr == D(0, 0, 1)
kms == DDiv(RSun, Myr)
erg == DMul(MSun, DPow(kms, 2))
\* units.J / units.kg, units.g / units.cm**3
J_per_kg == DDiv(erg, MSun)
g_per_cm3 == DDiv(MSun, DPow(RSun, 3))

\* G with a unit that lacks one power of the second
units_G_per_second == D(-1, 3, -1)

\* units_G = units.m**3 * units.kg**-1 * units.s**-2, the unit G is declared in
units_G == D(-1, 3, -2)

\* from amuse.units.constants import G
constants_G == D(-1, 3, -2)

\* vesc = (2*G*mstar/rstar).sqrt()
escape_speed(G, mstar, rstar) == DSqrt(DDiv(DMul(G, mstar), rstar))

\* the attributes, parameters and results of the framework that the notebooks
\* combine with their own quantities
model_time == Myr
position == RSun
u == J_per_kg
total_mass == MSun
epsilon_squared == DPow(RSun, 2)
\* get_hydro_state_at_point: density, momentum density, energy density
rho == g_per_cm3
rhov == DMul(rho, kms)
rhoe == DMul(rho, J_per_kg)

\* hydro_plot: the arguments of its logarithms, each paired with the unit none
hydro_plot ==
    LET min_v == kms
        max_v == kms
        min_rho == g_per_cm3
        max_rho == g_per_cm3
        min_E == J_per_kg
        max_E == J_per_kg
        v_sqr == DDiv(DPow(rhov, 2), DPow(rho, 2))
        E == DDiv(rhoe, rho)
    IN  {<<DDiv(v_sqr, DPow(min_v, 2)), none>>, <<DDiv(DPow(max_v, 2), DPow(min_v, 2)), none>>,
         <<DDiv(rho, min_rho), none>>, <<DDiv(max_rho, min_rho), none>>,
         <<DDiv(E, min_E), none>>, <<DDiv(max_E, min_E), none>>}

\* the pairs of dimensions that the statement at label l adds, compares,
\* converts into one another or assigns to a parameter or attribute of the
\* framework; q holds the dimensions of the units notebook's variables
Operands(l, q) ==
    CASE l \in {"un_kms", "un_kms2"} -> {<<q["vesc"], kms>>}
      [] l \in {"sp_while", "sp_star", "sp_hwhile", "sp_hevolve"} -> {<<model_time, Myr>>}
      [] l = "sp_convert" -> {<<position, RSun>>}
      [] l = "sp_inject" -> {<<DPow(position, 2), DPow(RSun, 2)>>,
                             <<u, DDiv(erg, total_mass)>>}
      [] l = "sp_fi" -> {<<epsilon_squared, DPow(position, 2)>>}
      [] l \in {"sp_plot10", "sp_plot60", "sp_plot3600", "sp_hplot"} ->
             hydro_plot \cup {<<model_time, Myr>>}
      [] l \in {"sp_core1", "sp_core2"} -> {<<DDiv(position, model_time), kms>>,
                                            <<position, RSun>>}
      [] OTHER -> {}

\* the framework raises IncompatibleUnitsException unless the two dimensions
\* of every such pair are the same
Compatible(l, q) == \A pr \in Operands(l, q) : pr[1] = pr[2]

\* the four shapes of an evolve_model call
EvolveOps == {"evolve", "evolve_time", "evolve_rel", "evolve_step"}

\* the channels that lead from a solver to a local collection
OutChannels == {ch \in ChanNames : Channel(ch).from \in CodeNames}

\* the codes a statement calls or reads
Uses(st) ==
    IF st.op = "copy"
    THEN {Channel(st.chan).from, Channel(st.chan).to} \cap CodeNames
    ELSE IF st.op \in EvolveOps \cup {"add_particles", "add_particle", "new_channel_to",
                                      "while", "probe", "pickle_stellar_model"}
         THEN {st.code}
         ELSE {}

\* the statements that compute a diagnostic from local collections
DiagOps == {"mean", "mmean", "virial_radius", "LagrangianRadii", "print_cluster",
            "get_binaries", "plot_snapshot"}

\* --------------------------------------------------------------- the state
VARIABLES
    nb,           \* the notebook that is run
    pc,           \* label of the next statement; "done" or "crashed" at the end
    i,            \* index in times of the loop variable time (0 before the loop)
    code,         \* each solver: status, particles, dm particles, model_time
    coll,         \* each local particle collection (<<>> before it exists)
    chans,        \* the channels created so far
    input,        \* the sampled mass functions mkroupa, msalpeter, m_stars
    series,       \* mmean, Rvir, RL25 and the latest binaries b
    pickle,       \* contents of the pickle file (<<>> before it is written)
    pickle_file,  \* whether setup_stellar_evolution_model has returned the path
    last,         \* label of the statement executed last
    failed,       \* the solvers whose evolve_model has raised
    copied,       \* the channels copy() has been called on
    snap,         \* per channel, the source's particles at its latest copy()
    advanced,     \* the solvers advanced since the latest copy() out of them
    exact,        \* every Fi evolve_model(t) so far ended at model_time = t
    quantity      \* the dimension of each variable the units notebook has bound

vars == <<nb, pc, i, code, coll, chans, input, series, pickle, pickle_file,
          last, failed, copied, snap, advanced, exact, quantity>>

cur == Stmt(pc)

\* control goes on at label l, unless the statement raises the framework's
\* unit error, which nothing catches
Goto(l) ==
    /\ pc' = IF Compatible(pc, quantity) THEN l ELSE "unit_error"
    /\ last' = pc

Init ==
    /\ nb \in Notebooks
    /\ pc = Entry(nb)
    /\ i = 0
    /\ code = [s \in CodeNames |-> NoCode]
    /\ \E mk \in MassSamples, ms \in MassSamples, mp \in MassSamples :
         /\ input = [mkroupa |-> IF nb = "stellar" THEN mk ELSE <<>>,
                     msalpeter |-> IF nb = "stellar" THEN ms ELSE <<>>,
                     m_stars |-> IF nb = "nbody" THEN mp ELSE <<>>]
         /\ coll = [c \in CollNames |->
                      CASE c = "k_stars" /\ nb = "stellar" -> Particles(mk, 0)
                        [] c = "s_stars" /\ nb = "stellar" -> Particles(ms, NStars)
                        [] OTHER -> <<>>]
    /\ chans = {}
    /\ series = [mmean |-> <<>>, Rvir |-> <<>>, RL25 |-> <<>>, b |-> {}]
    /\ pickle = <<>>
    /\ pickle_file = FALSE
    /\ last = "start"
    /\ failed = {}
    /\ copied = {}
    /\ snap = [ch \in ChanNames |-> <<>>]
    /\ advanced = {}
    /\ exact = TRUE
    /\ quantity = <<>>
\* ------------------------------------------------------------- the actions
\* a statement that only reads: print of a mean, a plot, the conditional
\* print of the cluster, a print or plot of a solver's state
Diagnose ==
    /\ cur.op \in {"mean", "plot", "plot_snapshot", "print_cluster", "probe", "print"}
    /\ Goto(cur.next)
    /\ UNCHANGED <<nb, i, code, coll, chans, input, series, pickle, pickle_file,
                   failed, copied, snap, advanced, exact, quantity>>

\* stellar, channels = start_stellar_code(stars)
StartStellarCode ==
    /\ cur.op = "start_stellar_code"
    /\ LET s == cur.code
           stars == coll[CHOOSE c \in cur.colls : TRUE]
       IN  /\ code' = [code EXCEPT ![s] =
                          add_particles([NoCode EXCEPT !.status = "running"], Kind(s), stars)]
           /\ chans' = chans \cup {ch \in ChanNames :
                                      s \in {Channel(ch).from, Channel(ch).to}}
    /\ Goto(cur.next)
    /\ UNCHANGED <<nb, i, coll, input, series, pickle, pickle_file,
                   failed, copied, snap, advanced, exact, quantity>>

\* for time in times: the next element, or the end of the loop
ForLoop ==
    /\ cur.op = "for"
    /\ IF i < Len(Times(nb))
       THEN i' = i + 1 /\ Goto(cur.next)
       ELSE i' = i /\ Goto(cur.alt)
    /\ UNCHANGED <<nb, code, coll, chans, input, series, pickle, pickle_file,
                   failed, copied, snap, advanced, exact, quantity>>

\* while code.model_time < limit
WhileLoop ==
    /\ cur.op = "while"
    /\ IF code[cur.code].model_time < cur.arg
       THEN Goto(cur.next)
       ELSE Goto(cur.alt)
    /\ UNCHANGED <<nb, i, code, coll, chans, input, series, pickle, pickle_file,
                   failed, copied, snap, advanced, exact, quantity>>

\* code.evolve_model(...) returns
EvolveModel ==
    /\ cur.op \in EvolveOps
    /\ code[cur.code].status = "running"
    /\ \E d \in Draws(Kind(cur.code)) :
         LET s == cur.code
             t == TargetTime(cur, code[s], nb, i, d)
             c == evolve_model(code[s], Kind(s), t, d)
         IN  /\ code' = [code EXCEPT ![s] = c]
             /\ coll' = LocalAfterEvolve(coll, s, c.particles)
             /\ exact' = (exact /\ c.model_time = t)
    /\ advanced' = advanced \cup {cur.code}
    /\ Goto(cur.next)
    /\ UNCHANGED <<nb, i, chans, input, series, pickle, pickle_file,
                   failed, copied, snap, quantity>>

\* code.evolve_model(...) raises: the solver keeps its last valid state
EvolveModelRaises ==
    /\ cur.op \in EvolveOps
    /\ code[cur.code].status = "running"
    /\ failed' = failed \cup {cur.code}
    /\ Goto(Except(pc))
    /\ UNCHANGED <<nb, i, code, coll, chans, input, series, pickle, pickle_file,
                   copied, snap, advanced, exact, quantity>>

\* channel.copy()
Copy ==
    /\ cur.op = "copy"
    /\ cur.chan \in chans
    /\ LET ch == Channel(cur.chan)
           src == IF ch.from \in CodeNames THEN code[ch.from].particles ELSE coll[ch.from]
       IN  /\ IF ch.to \in CodeNames
              THEN /\ code' = [code EXCEPT ![ch.to].particles = ChannelCopy(src, @)]
                   /\ coll' = coll
              ELSE /\ coll' = [coll EXCEPT ![ch.to] = ChannelCopy(src, @)]
                   /\ code' = code
           /\ snap' = [snap EXCEPT ![cur.chan] = src]
           /\ advanced' = advanced \ {ch.from}
    /\ copied' = copied \cup {cur.chan}
    /\ Goto(cur.next)
    /\ UNCHANGED <<nb, i, chans, input, series, pickle, pickle_file, failed, exact, quantity>>

\* mmean.append(numpy.mean(k_stars.mass)/numpy.mean(s_stars.mass)); the quotient
\* of the means is kept as the pair of the two sums of n_stars masses
AppendMmean ==
    /\ cur.op = "mmean"
    /\ series' = [series EXCEPT !.mmean =
                     Append(@, <<SumSeq(Masses(coll["k_stars"])),
                                 SumSeq(Masses(coll["s_stars"]))>>)]
    /\ Goto(cur.next)
    /\ UNCHANGED <<nb, i, code, coll, chans, input, pickle, pickle_file,
                   failed, copied, snap, advanced, exact, quantity>>

\* Rvir.append(bodies.virial_radius())
AppendRvir ==
    /\ cur.op = "virial_radius"
    /\ series' = [series EXCEPT !.Rvir = Append(@, virial_radius(coll["bodies"]))]
    /\ Goto(cur.next)
    /\ UNCHANGED <<nb, i, code, coll, chans, input, pickle, pickle_file,
                   failed, copied, snap, advanced, exact, quantity>>

\* L = LagrangianRadii(bodies); RL25.append(LagrangianRadii(bodies)[5])
AppendRL25 ==
    /\ cur.op = "LagrangianRadii"
    /\ series' = [series EXCEPT !.RL25 = Append(@, LagrangianRadii(coll["bodies"]))]
    /\ Goto(cur.next)
    /\ UNCHANGED <<nb, i, code, coll, chans, input, pickle, pickle_file,
                   failed, copied, snap, advanced, exact, quantity>>

\* b = bodies.get_binaries(), printed when not empty
GetBinaries ==
    /\ cur.op = "get_binaries"
    /\ series' = [series EXCEPT !.b = get_binaries(coll["bodies"])]
    /\ Goto(cur.next)
    /\ UNCHANGED <<nb, i, code, coll, chans, input, pickle, pickle_file,
                   failed, copied, snap, advanced, exact, quantity>>

\* converter = nbody_to_si(m_stars.sum(), r_cluster); bodies = new_king_model(...)
NewKingModel ==
    /\ cur.op = "new_king_model"
    /\ \E xs \in [1..NStars -> PosValues] :
         coll' = [coll EXCEPT !["bodies"] =
                     new_king_model(NStars, xs, SumSeq(input.m_stars))]
    /\ Goto(cur.next)
    /\ UNCHANGED <<nb, i, code, chans, input, series, pickle, pickle_file,
                   failed, copied, snap, advanced, exact, quantity>>

\* bodies.scale_to_standard(converter)
ScaleToStandard ==
    /\ cur.op = "scale_to_standard"
    /\ \E f \in ScaleFactors :
         coll' = [coll EXCEPT !["bodies"] =
                     scale_to_standard(@, SumSeq(input.m_stars), f)]
    /\ Goto(cur.next)
    /\ UNCHANGED <<nb, i, code, chans, input, series, pickle, pickle_file,
                   failed, copied, snap, advanced, exact, quantity>>

\* gravity = ph4(converter); MESA(redirection="none"); Fi(converter) and its parameters
NewCode ==
    /\ cur.op = "new_code"
    /\ code' = [code EXCEPT ![cur.code] = [NoCode EXCEPT !.status = "running"]]
    /\ Goto(cur.next)
    /\ UNCHANGED <<nb, i, coll, chans, input, series, pickle, pickle_file,
                   failed, copied, snap, advanced, exact, quantity>>

\* code.particles.add_particles(collection) (for MESA with commit_particles),
\* hydro_code.dm_particles.add_particle(core)
AddParticles ==
    /\ cur.op \in {"add_particles", "add_particle"}
    /\ LET s == cur.code
           ps == coll[CHOOSE c \in cur.colls : TRUE]
       IN  code' = [code EXCEPT ![s] =
                       IF cur.op = "add_particles"
                       THEN add_particles(@, Kind(s), ps)
                       ELSE add_particle(@, Kind(s), ps)]
    /\ Goto(cur.next)
    /\ UNCHANGED <<nb, i, coll, chans, input, series, pickle, pickle_file,
                   failed, copied, snap, advanced, exact, quantity>>

\* channel = gravity.particles.new_channel_to(bodies)
NewChannel ==
    /\ cur.op = "new_channel_to"
    /\ chans' = chans \cup {cur.chan}
    /\ Goto(cur.next)
    /\ UNCHANGED <<nb, i, code, coll, input, series, pickle, pickle_file,
                   failed, copied, snap, advanced, exact, quantity>>

\* code.stop()
Stop ==
    /\ cur.op = "stop"
    /\ code' = [code EXCEPT ![cur.code].status = "stopped"]
    /\ Goto(cur.next)
    /\ UNCHANGED <<nb, i, coll, chans, input, series, pickle, pickle_file,
                   failed, copied, snap, advanced, exact, quantity>>

\* stars = Particles(1); stars.mass = 15.0 | units.MSun
NewParticles ==
    /\ cur.op = "Particles"
    /\ coll' = [coll EXCEPT !["stars"] = Particles(<<cur.arg>>, 0)]
    /\ Goto(cur.next)
    /\ UNCHANGED <<nb, i, code, chans, input, series, pickle, pickle_file,
                   failed, copied, snap, advanced, exact, quantity>>

\* pickle_stellar_model(stellar_evolution.particles[0], out_pickle_file)
PickleStellarModel ==
    /\ cur.op = "pickle_stellar_model"
    /\ pickle' = <<code[cur.code].particles[1]>>
    /\ Goto(cur.next)
    /\ UNCHANGED <<nb, i, code, coll, chans, input, series, pickle_file,
                   failed, copied, snap, advanced, exact, quantity>>

\* return out_pickle_file; pickle_file = setup_stellar_evolution_model()
Return ==
    /\ cur.op = "return"
    /\ pickle_file' = TRUE
    /\ Goto(cur.next)
    /\ UNCHANGED <<nb, i, code, coll, chans, input, series, pickle,
                   failed, copied, snap, advanced, exact, quantity>>

\* model = convert_stellar_model_to_SPH(...); core, gas_without_core, core_radius = ...
ConvertToSPH ==
    /\ cur.op = "convert_stellar_model_to_SPH"
    /\ pickle_file /\ pickle # <<>>
    /\ \E gm \in [1..NGas -> GasMasses], r2 \in [1..NGas -> R2Values] :
         LET model == convert_stellar_model_to_SPH(pickle[1], gm, r2)
         IN  coll' = [coll EXCEPT !["gas_without_core"] = model.gas_particles,
                                  !["core"] = model.core_particle]
    /\ Goto(cur.next)
    /\ UNCHANGED <<nb, i, code, chans, input, series, pickle, pickle_file,
                   failed, copied, snap, advanced, exact, quantity>>

\* inject_supernova_energy(gas_without_core, exploding_region=1|units.RSun)
InjectSupernovaEnergy ==
    /\ cur.op = "inject_supernova_energy"
    /\ coll' = [coll EXCEPT !["gas_without_core"] =
                   inject_supernova_energy(@, ExplosionEnergy, cur.arg)]
    /\ Goto(cur.next)
    /\ UNCHANGED <<nb, i, code, chans, input, series, pickle, pickle_file,
                   failed, copied, snap, advanced, exact, quantity>>

\* mstar = 1 | units.MSun; rstar = 1 | units.RSun; G = 6.67e-11 | units_G;
\* from amuse.units.constants import G
Declare ==
    /\ cur.op \in {"declare_star", "declare_G", "import_G"}
    /\ quantity' = CASE cur.op = "declare_star" ->
                           ("mstar" :> MSun) @@ ("rstar" :> RSun) @@ quantity
                      [] cur.op = "declare_G" -> ("G" :> units_G) @@ quantity
                      [] cur.op = "import_G" -> ("G" :> constants_G) @@ quantity
    /\ Goto(cur.next)
    /\ UNCHANGED <<nb, i, code, coll, chans, input, series, pickle, pickle_file,
                   failed, copied, snap, advanced, exact>>

\* vesc = (2*G*mstar/rstar).sqrt()
EscapeSpeed ==
    /\ cur.op = "escape_speed"
    /\ quantity' = ("vesc" :> escape_speed(quantity["G"], quantity["mstar"],
                                           quantity["rstar"])) @@ quantity
    /\ Goto(cur.next)
    /\ UNCHANGED <<nb, i, code, coll, chans, input, series, pickle, pickle_file,
                   failed, copied, snap, advanced, exact>>

Next ==
    \/ Diagnose
    \/ Declare
    \/ EscapeSpeed
    \/ StartStellarCode
    \/ ForLoop
    \/ WhileLoop
    \/ EvolveModel
    \/ EvolveModelRaises
    \/ Copy
    \/ AppendMmean
    \/ AppendRvir
    \/ AppendRL25
    \/ GetBinaries
    \/ NewKingModel
    \/ ScaleToStandard
    \/ NewCode
    \/ AddParticles
    \/ NewChannel
    \/ Stop
    \/ NewParticles
    \/ PickleStellarModel
    \/ Return
    \/ ConvertToSPH
    \/ InjectSupernovaEnergy

Spec == Init /\ [][Next]_vars
\* ------------------------------------------------------------------ claims
\* C1: when evolve_model() of the MESA solver has raised inside the while loop
\* of setup_stellar_evolution_model, the function still pickles particles[0],
\* stops the solver and returns the pickle file path: a run that has ended
\* after such a failure has the pickle written, MESA stopped and the path
\* returned.
C1_FailureCaughtThenPickled ==
    ("mesa" \in failed /\ pc \in {"done", "crashed"})
        => (pickle # <<>> /\ code["mesa"].status = "stopped" /\ pickle_file)

\* C2: at the moment gravity.particles.add_particles(bodies) executes, the
\* masses of bodies are the n_stars values of m_stars (bodies' masses are kept
\* in units of MSun/NStars).
C2_BodiesCarrySampledMasses ==
    pc = "nb_add"
        => Masses(coll["bodies"]) = [j \in 1..NStars |-> NStars * input.m_stars[j]]

\* C3: when the final while loop over hydro_code.evolve_model ends, every
\* evolve_model(t) having returned with model_time = t, hydro_code.model_time
\* is at least 1 day (86400 s).
C3_HydroRunReachesOneDay ==
    (last = "sp_hwhile" /\ pc = "sp_core2" /\ exact)
        => code["hydro"].model_time >= 86400

\* C4: in a run in which no solver call fails, every solver the notebook has
\* constructed has been stopped when the script has ended.
C4_EverySolverStopped ==
    (pc = "done" /\ failed = {})
        => \A s \in CodeNames : code[s].status # "running"

\* C5: a statement that calls or reads a solver finds it constructed and not
\* stopped, and an evolve_model call finds particles added to it.
C5_LifecycleOrder ==
    \A s \in Uses(cur) :
        /\ code[s].status = "running"
        /\ cur.op \in EvolveOps => Len(code[s].particles) > 0

\* C5 witness: a solver that was advanced has been stopped and the script goes on.
C5_Witness ==
    /\ pc = "st_means"
    /\ code["kstellar"].status = "stopped"
    /\ code["kstellar"].model_time > 0

\* C6: whenever a diagnostic is about to be computed from a local collection
\* that is linked to a constructed solver, that solver has not been advanced
\* since the latest copy into the collection; in an iteration of a loop the
\* solver stands at the iteration's target time and the copy has been made.
C6_DiagnosticsAfterCopy ==
    cur.op \in DiagOps =>
        \A ch \in OutChannels :
            (Channel(ch).to \in cur.colls /\ code[Channel(ch).from].status # "none")
                => /\ Channel(ch).from \notin advanced
                   /\ i >= 1 => /\ code[Channel(ch).from].model_time = Times(nb)[i]
                                /\ ch \in copied

\* C6 witness: the virial radius of the last iteration is about to be computed
\* from bodies, after ph4 has moved the particles.
C6_Witness ==
    /\ pc = "nb_rvir"
    /\ i = NTimes
    /\ code["gravity"].model_time > 0
    /\ snap["g_to_bodies"] # <<>>
    /\ \E j \in 1..NStars : coll["bodies"][j].attrs.x > 2

\* C7: immediately after channel.copy() every particle of the target has a
\* source particle of the same key, and every attribute the source holds for
\* it is an attribute of the target particle with the source's current value.
C7_CopyOverwritesWholesale ==
    Stmt(last).op = "copy" =>
        LET ch == Channel(Stmt(last).chan)
            src == IF ch.from \in CodeNames THEN code[ch.from].particles ELSE coll[ch.from]
            dst == IF ch.to \in CodeNames THEN code[ch.to].particles ELSE coll[ch.to]
        IN  \A j \in 1..Len(dst) :
                \E q \in 1..Len(src) :
                    /\ src[q].key = dst[j].key
                    /\ \A a \in DOMAIN src[q].attrs :
                           /\ a \in DOMAIN dst[j].attrs
                           /\ dst[j].attrs[a] = src[q].attrs[a]

\* C7 witness: a copy has just replaced a sampled mass of k_stars by the
\* solver's evolved value.
C7_Witness ==
    /\ last = "st_kcopy"
    /\ \E j \in 1..NStars :
           /\ coll["k_stars"][j].attrs.mass # input.mkroupa[j]
           /\ coll["k_stars"][j].attrs.age > 0

\* C8: once a solver runs, the local collection it is linked to changes only
\* in a step that is the copy() of that channel (not when the channel is
\* created, not when the solver is advanced), and after a copy it holds the
\* solver's particles as they were at the latest copy.
C8_LocalChangesOnlyOnCopy ==
    /\ [][\A ch \in OutChannels :
             (code[Channel(ch).from].status = "running"
                 /\ coll'[Channel(ch).to] # coll[Channel(ch).to])
             => (cur.op = "copy" /\ cur.chan = ch)]_vars
    /\ [](\A ch \in OutChannels :
             ch \in copied => coll[Channel(ch).to] = snap[ch])

\* C8 witness: ph4 has been advanced after a copy and bodies still differs
\* from the solver's particles.
C8_Witness ==
    /\ pc = "nb_copy"
    /\ "g_to_bodies" \in copied
    /\ coll["bodies"] # code["gravity"].particles
    /\ coll["bodies"] = snap["g_to_bodies"]

\* C9: once particles have been added to a solver, the solver and the local
\* collection linked to it hold the same keys in the same order, no step
\* changes the keys of either side, and what the latest copy wrote to a local
\* particle are the attributes of the solver's particle of the same key.
C9_AlignedByIdentity ==
    /\ [](\A ch \in OutChannels :
             LET sp == code[Channel(ch).from].particles
                 lp == coll[Channel(ch).to]
             IN  Len(sp) > 0 =>
                   /\ Keys(sp) = Keys(lp)
                   /\ ch \in copied =>
                        \A j \in 1..Len(lp) : \A q \in 1..Len(snap[ch]) :
                            (Keys(sp)[q] = lp[j].key)
                                => \A a \in DOMAIN snap[ch][q].attrs :
                                       lp[j].attrs[a] = snap[ch][q].attrs[a])
    /\ [][\A ch \in OutChannels :
             Len(code[Channel(ch).from].particles) > 0 =>
                /\ Keys(code'[Channel(ch).from].particles)
                       = Keys(code[Channel(ch).from].particles)
                /\ Keys(coll'[Channel(ch).to]) = Keys(coll[Channel(ch).to])]_vars

\* C9 witness: copies of two iterations have been made into bodies, whose
\* particles differ in an attribute.
C9_Witness ==
    /\ pc = "nb_rvir"
    /\ i >= 2
    /\ coll["bodies"][1].attrs.x # coll["bodies"][2].attrs.x
    /\ coll["bodies"][1].attrs.x # snap["g_to_bodies"][2].attrs.x

\* C10: copy() is never called on a channel that leads into a solver, and a
\* solver's particles change only in a step that adds particles to that solver
\* or advances it.
C10_NoFeedbackIntoSolvers ==
    /\ [](\A ch \in copied : Channel(ch).to \notin CodeNames)
    /\ [][\A s \in CodeNames :
             code'[s].particles # code[s].particles
                => /\ cur.code = s
                   /\ cur.op \in EvolveOps \cup {"add_particles", "start_stellar_code"}]_vars

\* C10 witness: the channel into the solver exists, the run has ended, and
\* k_stars holds evolved masses that the solver was never given back.
C10_Witness ==
    /\ pc = "done"
    /\ "k_to_stellar" \in chans
    /\ "k_to_stars" \in copied
    /\ Masses(coll["k_stars"]) # input.mkroupa

\* C11: a failure of evolve_model outside setup_stellar_evolution_model (in a
\* SeBa, the ph4 or the Fi solver) is not caught: the script has ended at the
\* failing call, and no later step of it was executed (the solver is not
\* stopped, nothing was copied out of it after its last advance that returned,
\* and the result series lack the entry of the iteration that failed).
C11_UncaughtFailureEndsScript ==
    \A s \in failed \ {"mesa"} :
        /\ pc = "crashed"
        /\ Stmt(last).op \in EvolveOps
        /\ Stmt(last).code = s
        /\ code[s].status = "running"
        /\ nb = "stellar" => /\ Len(series.mmean) = i - 1
                             /\ \A c \in CodeNames : code[c].status # "stopped"
        /\ nb = "nbody" => (Len(series.Rvir) = i - 1 /\ Len(series.RL25) = i - 1)

\* C11 witness: ph4's evolve_model has raised in the second iteration, after
\* a full first iteration.
C11_Witness ==
    /\ "gravity" \in failed
    /\ pc = "crashed"
    /\ i = 2
    /\ Len(series.Rvir) = 1

\* C12: a solver whose evolve_model has raised is never the solver of the
\* statement that is about to execute an evolve_model again, and its
\* model_time and particles never change afterwards.
C12_NoRetry ==
    /\ [](cur.op \in EvolveOps => cur.code \notin failed)
    /\ [][\A s \in failed : code'[s].model_time = code[s].model_time
                             /\ code'[s].particles = code[s].particles]_vars

\* C12 witness: MESA's evolve_model() has raised after a call that returned,
\* and the run is over.
C12_Witness ==
    /\ "mesa" \in failed
    /\ code["mesa"].model_time > 0
    /\ pc \in {"done", "crashed"}

\* C13: execution is sequential.  A step executes one statement and changes
\* at most one solver; a solver's model_time changes only in the step of an
\* evolve_model statement on that solver, and when that step is over the call
\* has returned with the solver at (for Fi: at or beyond) the requested time.
\* When the Salpeter solver's evolve of an iteration is about to begin, the
\* Kroupa solver stands at the iteration's time, its copy into k_stars has
\* been made, and the Salpeter solver is still at an earlier time.
C13_StrictlySequential ==
    /\ [][/\ Cardinality({s \in CodeNames : code'[s] # code[s]}) <= 1
          /\ \A s \in CodeNames :
                code'[s].model_time # code[s].model_time
                    => /\ cur.op \in EvolveOps
                       /\ cur.code = s
                       /\ pc' = cur.next
                       /\ code'[s].model_time >= TargetTime(cur, code[s], nb, i, 0)]_vars
    /\ [](pc = "st_sevolve" =>
             /\ code["kstellar"].model_time = Times(nb)[i]
             /\ "kstellar" \notin advanced
             /\ coll["k_stars"] = code["kstellar"].particles
             /\ code["sstellar"].model_time < Times(nb)[i])

\* C13 witness: the Salpeter solver's evolve of the second iteration is about
\* to begin, the Kroupa solver's second evolve and copy having changed k_stars.
C13_Witness ==
    /\ pc = "st_sevolve"
    /\ i = 2
    /\ code["sstellar"].model_time = Times(nb)[1]
    /\ Masses(coll["k_stars"]) # input.mkroupa

\* C14: no statement fails with a unit error: the run never ends in one, and
\* the operands of the statement about to execute are dimensionally
\* compatible (vesc is a velocity where it is converted to km/s; model_time is
\* compared with a time; length_squared with exploding_region**2; the energy
\* per mass is added to u; epsilon_squared is a length squared; the arguments
\* of hydro_plot's logarithms have no unit).
C14_UnitsCompatible ==
    /\ pc # "unit_error"
    /\ Compatible(pc, quantity)
    /\ pc \in {"un_kms", "un_kms2"} => quantity["vesc"] = DDiv(RSun, Myr)

\* C14 witness: the units notebook has ended, its last statement having
\* converted to km/s the escape speed computed with the imported G.
C14_Witness ==
    /\ nb = "units"
    /\ pc = "done"
    /\ last = "un_kms2"
    /\ quantity["vesc"] = kms

\* C15: the step of inject_supernova_energy keeps the particles, their keys,
\* masses and positions; it leaves u of every particle whose squared distance
\* is not strictly below exploding_region squared as it was, and raises u of
\* every other particle by one common amount, which times the total mass of
\* those particles is the explosion energy; no other collection changes.
C15_InjectionFrame ==
    [][cur.op = "inject_supernova_energy" =>
          LET gas == coll["gas_without_core"]
              after == coll'["gas_without_core"]
              sel == {j \in 1..Len(gas) :
                         gas[j].attrs.r2 < ExplodingRegion * ExplodingRegion}
              msel == SumSeq([j \in 1..Len(gas) |->
                                 IF j \in sel THEN gas[j].attrs.mass ELSE 0])
          IN  /\ Len(after) = Len(gas)
              /\ \A j \in 1..Len(gas) :
                    /\ after[j].key = gas[j].key
                    /\ DOMAIN after[j].attrs = DOMAIN gas[j].attrs
                    /\ after[j].attrs.mass = gas[j].attrs.mass
                    /\ after[j].attrs.r2 = gas[j].attrs.r2
                    /\ j \notin sel => after[j].attrs.u = gas[j].attrs.u
                    /\ j \in sel =>
                          (after[j].attrs.u - gas[j].attrs.u) * msel = ExplosionEnergy
              /\ \A c \in CollNames \ {"gas_without_core"} : coll'[c] = coll[c]]_vars

\* C15 witness: the energy has been injected into a set with one particle at
\* the centre and one on the edge of the region; only the first was raised.
C15_Witness ==
    /\ last = "sp_inject"
    /\ coll["gas_without_core"][1].attrs.r2 = 0
    /\ coll["gas_without_core"][2].attrs.r2 = ExplodingRegion * ExplodingRegion
    /\ coll["gas_without_core"][1].attrs.u > pickle[1].attrs.mass
    /\ coll["gas_without_core"][2].attrs.u = pickle[1].attrs.mass

\* C16: when at least one particle is selected, the sum over the selected
\* particles of mass times the increase of u in the step of
\* inject_supernova_energy is the explosion energy.
C16_InjectedEnergyAddsUp ==
    [][cur.op = "inject_supernova_energy" =>
          LET gas == coll["gas_without_core"]
              after == coll'["gas_without_core"]
              sel == {j \in 1..Len(gas) :
                         gas[j].attrs.r2 < ExplodingRegion * ExplodingRegion}
          IN  sel # {} =>
                SumSeq([j \in 1..Len(gas) |->
                           IF j \in sel
                           THEN gas[j].attrs.mass * (after[j].attrs.u - gas[j].attrs.u)
                           ELSE 0]) = ExplosionEnergy]_vars

\* C16 witness: the energy has been shared by two selected particles of
\* different mass.
C16_Witness ==
    /\ last = "sp_inject"
    /\ \A j \in 1..2 : coll["gas_without_core"][j].attrs.r2 = 0
    /\ coll["gas_without_core"][1].attrs.mass # coll["gas_without_core"][2].attrs.mass
    /\ coll["gas_without_core"][1].attrs.u = coll["gas_without_core"][2].attrs.u
    /\ coll["gas_without_core"][1].attrs.u > pickle[1].attrs.mass

\* C17: the local gas set does not change between the injection and
\* hydro_code.gas_particles.add_particles, and right after add_particles the
\* solver's gas particles are the local ones, those inside the exploding
\* region with u raised above the value the conversion gave them by the
\* explosion energy per selected mass.
C17_SolverStartsWithInjectedEnergy ==
    /\ [][(pc = "sp_fi" \/ pc = "sp_addgas") =>
              (coll'["gas_without_core"] = coll["gas_without_core"])]_vars
    /\ [](last = "sp_addgas" =>
             LET gas == coll["gas_without_core"]
                 sph == code["hydro"].particles
                 sel == {j \in 1..Len(gas) :
                            gas[j].attrs.r2 < ExplodingRegion * ExplodingRegion}
                 msel == SumSeq([j \in 1..Len(gas) |->
                                    IF j \in sel THEN gas[j].attrs.mass ELSE 0])
                 u0 == convert_stellar_model_to_SPH(pickle[1], Masses(gas),
                           [j \in 1..Len(gas) |-> gas[j].attrs.r2]).gas_particles
             IN  /\ Len(sph) = Len(gas)
                 /\ \A j \in 1..Len(gas) :
                       /\ sph[j].key = gas[j].key
                       /\ sph[j].attrs.u = gas[j].attrs.u
                       /\ j \in sel =>
                             (sph[j].attrs.u - u0[j].attrs.u) * msel = ExplosionEnergy)

\* C17 witness: the gas has just been added to Fi, with a particle of the
\* exploding region that carries the raised u.
C17_Witness ==
    /\ last = "sp_addgas"
    /\ code["hydro"].particles[1].attrs.r2 = 0
    /\ code["hydro"].particles[1].attrs.u > pickle[1].attrs.mass

\* C18: when the while loop of setup_stellar_evolution_model ends without a
\* failure, MESA's model_time is at least 0.12 Myr (120 kyr); evolve_model()
\* is about to be called only with model_time below 0.12 Myr; and the model
\* just pickled is the solver's particle as it is then, its age the
\* model_time the loop ended at.
C18_EvolvedToLimit ==
    /\ (last = "sp_while" /\ pc = "sp_pickle") => code["mesa"].model_time >= 120
    /\ pc = "sp_evolve" => code["mesa"].model_time < 120
    /\ (last = "sp_pickle" /\ "mesa" \notin failed) =>
          /\ pickle = <<code["mesa"].particles[1]>>
          /\ pickle[1].attrs.age = code["mesa"].model_time
          /\ pickle[1].attrs.age >= 120

\* C18 witness: the loop has ended beyond the limit after three calls, and
\* the model has been pickled.
C18_Witness ==
    /\ last = "sp_pickle"
    /\ "mesa" \notin failed
    /\ pickle[1].attrs.age = 150
    /\ code["mesa"].model_time = 150

\* C19: mmean grows by one entry per iteration of the stellar loop and has
\* one entry per element of times once the loop is over; the entry appended
\* in iteration i is the pair of mass sums (the quotient of the two means) of
\* k_stars and s_stars, which then hold the masses of the two solvers, both
\* standing at times[i] and both copied; entries are never changed later.
C19_MeanMassRatioPerTime ==
    /\ [](nb = "stellar" =>
             /\ pc \in {"st_kstop", "st_sstop", "st_means", "st_plot", "done"}
                   => Len(series.mmean) = Len(Times(nb))
             /\ last = "st_mmean" =>
                   /\ Len(series.mmean) = i
                   /\ series.mmean[i] = <<SumSeq(Masses(code["kstellar"].particles)),
                                          SumSeq(Masses(code["sstellar"].particles))>>
                   /\ series.mmean[i] = <<SumSeq(Masses(coll["k_stars"])),
                                          SumSeq(Masses(coll["s_stars"]))>>
                   /\ code["kstellar"].model_time = Times(nb)[i]
                   /\ code["sstellar"].model_time = Times(nb)[i]
                   /\ advanced = {}
                   /\ {"k_to_stars", "s_to_stars"} \subseteq copied)
    /\ [][/\ Len(series'.mmean) >= Len(series.mmean)
          /\ \A j \in 1..Len(series.mmean) : series'.mmean[j] = series.mmean[j]]_vars

\* C19 witness: the notebook has ended with one entry per element of times,
\* the first and the last being different.
C19_Witness ==
    /\ nb = "stellar"
    /\ pc = "done"
    /\ Len(series.mmean) = NTimes
    /\ series.mmean[1] # series.mmean[NTimes]

\* C20: in the N-body run the binary check always leads back to the head of
\* the loop, whatever it found.  Every evolve_model of the loop advances ph4
\* from the previous element of times to the current one, with one entry of
\* Rvir per finished iteration, and is followed by the copy of that state.
\* The loop is left only after the last element of times.  The run
\* terminates: a run that has not ended can take a step, and every step
\* lowers a measure that is bounded below (100 for each element of times
\* still to come, plus the rank of the statement within the script).
C20_BinaryCheckDoesNotEndRun ==
    /\ [][(nb = "nbody" /\ cur.op = "get_binaries") => pc' = "nb_for"]_vars
    /\ [][(pc = "nb_evolve" /\ pc' = "nb_copy") =>
              /\ Len(series.Rvir) = i - 1
              /\ code'["gravity"].model_time = Times(nb)[i]
              /\ i > 1 => code["gravity"].model_time = Times(nb)[i - 1]]_vars
    /\ [][pc = "nb_copy" =>
              /\ pc' = "nb_rvir"
              /\ snap'["g_to_bodies"] = code["gravity"].particles
              /\ code["gravity"].model_time = Times(nb)[i]]_vars
    /\ []((nb = "nbody" /\ pc \in {"nb_plot", "done"}) =>
             /\ i = Len(Times(nb))
             /\ Len(series.Rvir) = Len(Times(nb))
             /\ code["gravity"].model_time = Times(nb)[Len(Times(nb))]
             /\ "gravity" \notin advanced)
    /\ []((nb = "nbody" /\ pc \notin {"done", "crashed"}) => ENABLED Next)
    /\ [][nb = "nbody" =>
              LET rank(l) ==
                      CASE l = "nb_cdf" -> 30 [] l = "nb_king" -> 29
                        [] l = "nb_scale" -> 28 [] l = "nb_snapshot" -> 27
                        [] l = "nb_ph4" -> 26 [] l = "nb_add" -> 25
                        [] l = "nb_channel" -> 24 [] l = "nb_evolve" -> 19
                        [] l = "nb_copy" -> 18 [] l = "nb_rvir" -> 17
                        [] l = "nb_lagr" -> 16 [] l = "nb_cluster" -> 15
                        [] l = "nb_binaries" -> 14 [] l = "nb_for" -> 10
                        [] l = "nb_plot" -> 2 [] l = "done" -> 1 [] OTHER -> 0
                  measure(l, k) == 100 * (Len(Times(nb)) - k) + rank(l)
              IN  /\ measure(pc', i') < measure(pc, i)
                  /\ measure(pc', i') >= 0
                  /\ pc' = "crashed" => cur.op \in EvolveOps]_vars

\* C20 witness: the run has ended after the last element of times, a binary
\* having been detected in the last iteration.
C20_Witness ==
    /\ nb = "nbody"
    /\ pc = "done"
    /\ failed = {}
    /\ series.b # {}
    /\ Len(series.Rvir) = NTimes
====
